---------------------------- MODULE Spec2Model ----------------------------
(***************************************************************************)
(* string-wizard (src/index.js): compareStrings, stripDiacritics,          *)
(* sanitizeName, structuralBonus and compareNames.                         *)
(*                                                                         *)
(* A JavaScript string is a sequence of one-character strings (its UTF-16  *)
(* code units).  A JavaScript value is a record [t, v]: t is its type and  *)
(* v is the text String(value) gives (the characters of a string, the      *)
(* digits of a number, "true"/"false" for a boolean).                       *)
(*                                                                         *)
(* A JavaScript number is either NaN or an exact fraction [n, d] in lowest *)
(* terms with d > 0.  The arithmetic of the source (+, -, *, /, Math.min,  *)
(* Math.max) is modelled on these with NaN propagating as IEEE 754 has it; *)
(* rounding of doubles is not modelled (0.5 + 0.3 + 0.2 is the double 1    *)
(* and 0.05 + 0.02 is the double 0.07, as the tests of the repository      *)
(* assert).                                                                *)
(*                                                                         *)
(* Loops over the characters of a string are written so that TLC           *)
(* evaluates them at a small depth: a loop that carries a value from one   *)
(* iteration to the next (the rows and cells of the two tables of          *)
(* compareStrings) runs over its range first half first, in the order of   *)
(* the source.                                                             *)
(***************************************************************************)
EXTENDS Integers, Sequences, FiniteSets, TLC

VARIABLES pc, op, argA, argB, ret, computed

vars == <<pc, op, argA, argB, ret, computed>>

(***************************************************************************)
(* Bounds of the model.                                                    *)
(***************************************************************************)
\* longest string built from CmpAlphabet
MaxLen == 2
\* most pieces of NamePieces concatenated into one name
MaxPieces == 2

\* the longest argument of the calls of SpecBlend
BlendLen == 3

(***************************************************************************)
(* Numbers.                                                                *)
(***************************************************************************)
RECURSIVE Gcd(_, _)
Gcd(x, y) == IF y = 0 THEN x ELSE Gcd(y, x % y)

Abs(x) == IF x < 0 THEN -x ELSE x

NaN == [n |-> 0, d |-> 0]

IsNaN(x) == x.d = 0

\* the number n/d; n/0 with n = 0 is NaN (0/0); the source never divides a
\* non-zero number by zero
Frac(n, d) ==
    IF d = 0 THEN NaN
    ELSE LET g == Gcd(Abs(n), Abs(d))
             s == IF d < 0 THEN -1 ELSE 1
         IN  [n |-> (s * n) \div g, d |-> (s * d) \div g]

Num(k) == [n |-> k, d |-> 1]

Add(x, y) == IF IsNaN(x) \/ IsNaN(y) THEN NaN
             ELSE Frac(x.n * y.d + y.n * x.d, x.d * y.d)

Sub(x, y) == IF IsNaN(x) \/ IsNaN(y) THEN NaN
             ELSE Frac(x.n * y.d - y.n * x.d, x.d * y.d)

Mul(x, y) == IF IsNaN(x) \/ IsNaN(y) THEN NaN
             ELSE Frac(x.n * y.n, x.d * y.d)

\* x / y for integers x, y >= 0 as the source divides them
Div(x, y) == Frac(x, y)

\* x <= y; false when either is NaN, as every IEEE comparison with NaN is
Leq(x, y) == ~IsNaN(x) /\ ~IsNaN(y) /\ x.n * y.d <= y.n * x.d

\* Math.min and Math.max return NaN when an argument is NaN
MathMin(x, y) == IF IsNaN(x) \/ IsNaN(y) THEN NaN
                 ELSE IF Leq(x, y) THEN x ELSE y

MathMax(x, y) == IF IsNaN(x) \/ IsNaN(y) THEN NaN
                 ELSE IF Leq(x, y) THEN y ELSE x

MaxInt(x, y) == IF x >= y THEN x ELSE y

MinInt(x, y) == IF x <= y THEN x ELSE y

(***************************************************************************)
(* Characters.                                                             *)
(***************************************************************************)
UpperLetters == <<"A", "B", "C", "D", "E", "F", "G", "H", "I", "J", "K", "L", "M",
                  "N", "O", "P", "Q", "R", "S", "T", "U", "V", "W", "X", "Y", "Z">>

LowerLetters == <<"a", "b", "c", "d", "e", "f", "g", "h", "i", "j", "k", "l", "m",
                  "n", "o", "p", "q", "r", "s", "t", "u", "v", "w", "x", "y", "z">>

Digits == {"0", "1", "2", "3", "4", "5", "6", "7", "8", "9"}

Range(s) == {s[i] : i \in DOMAIN s}

\* e with acute accent (U+00E9), precomposed, and the combining acute accent
\* (U+0301) its decomposition holds
EAcute == "U+00E9"
CombiningAcute == "U+0301"

\* String.prototype.toLowerCase, one character
LowerChar(c) ==
    IF c \in Range(UpperLetters)
    THEN LowerLetters[CHOOSE i \in DOMAIN UpperLetters : UpperLetters[i] = c]
    ELSE c

\* the regular expression class \w
IsWordChar(c) == c \in Range(UpperLetters) \cup Range(LowerLetters) \cup Digits \cup {"_"}

\* the regular expression class \s, which is also what trim() removes
IsSpace(c) == c \in {" ", "\t", "\n"}

\* /^[a-z]$/ of one character
IsLowerAsciiLetter(c) == c \in Range(LowerLetters)

(***************************************************************************)
(* Strings.                                                                *)
(***************************************************************************)
\* String.prototype.toLowerCase
toLowerCase(s) == [i \in 1..Len(s) |-> LowerChar(s[i])]

\* the positions of a string, in order
Positions(s) == [i \in 1..Len(s) |-> i]

\* String.prototype.trim: the string between its first and its last
\* character that is no white space
trim(s) ==
    LET solid == {i \in DOMAIN s : ~IsSpace(s[i])}
    IN  IF solid = {} THEN <<>>
        ELSE SubSeq(s, CHOOSE i \in solid : \A k \in solid : i <= k,
                       CHOOSE i \in solid : \A k \in solid : k <= i)

\* str.split(separator).filter(Boolean): the maximal runs of characters that
\* are no separators, in order; seps holds the characters the separator matches
SplitRuns(s, seps) ==
    LET Starts(i) == s[i] \notin seps /\ (i = 1 \/ s[i - 1] \in seps)
        RunEnd(i) == CHOOSE j \in i..Len(s) :
                         /\ \A k \in i..j : s[k] \notin seps
                         /\ j = Len(s) \/ s[j + 1] \in seps
        starts == SelectSeq(Positions(s), Starts)
    IN  [n \in 1..Len(starts) |-> SubSeq(s, starts[n], RunEnd(starts[n]))]

\* s.replace(/[class]+/g, ' '): every maximal run of characters of the class
\* becomes one space; class holds the characters the class matches
ReplaceRuns(s, class) ==
    LET Kept(i) == s[i] \notin class \/ i = 1 \/ s[i - 1] \notin class
        kept == SelectSeq(Positions(s), Kept)
    IN  [n \in 1..Len(kept) |-> IF s[kept[n]] \in class THEN " " ELSE s[kept[n]]]

\* tokens.join(' ')
RECURSIVE JoinSpace(_)
JoinSpace(ts) ==
    IF ts = <<>> THEN <<>>
    ELSE IF Len(ts) = 1 THEN ts[1]
    ELSE ts[1] \o <<" ">> \o JoinSpace(Tail(ts))

(***************************************************************************)
(* JavaScript values and results of calls.                                 *)
(***************************************************************************)
Undefined == [t |-> "undefined", v |-> <<>>]
Null == [t |-> "null", v |-> <<>>]
Str(s) == [t |-> "string", v |-> s]
\* a number, given by the digits String() prints
Number(digits) == [t |-> "number", v |-> digits]
Boolean(text) == [t |-> "boolean", v |-> text]

\* !x
Falsy(x) ==
    \/ x.t \in {"undefined", "null"}
    \/ x.t = "string" /\ x.v = <<>>
    \/ x.t = "number" /\ x.v \in {<<"0">>, <<"N", "a", "N">>}
    \/ x.t = "boolean" /\ x.v = <<"f", "a", "l", "s", "e">>

\* String(x) of a value that is neither null nor undefined
String(x) == x.v

ReturnNumber(x) == [kind |-> "return", type |-> "number", num |-> x, str |-> <<>>]
ReturnString(s) == [kind |-> "return", type |-> "string", num |-> NaN, str |-> s]
\* x.method is not a function
ThrowTypeError == [kind |-> "throw", type |-> "TypeError", num |-> NaN, str |-> <<>>]
NoResult == [kind |-> "none", type |-> "none", num |-> NaN, str |-> <<>>]

(***************************************************************************)
(* compareStrings, src/index.js 21-79.                                     *)
(***************************************************************************)
\* Min3 with its first argument left out
Min3_IgnoresFirst(x, y, z) == MinInt(y, z)

Min3(x, y, z) == MinInt(x, MinInt(y, z))

\* dp[0]: dp[0][i] = i for i in 0..s1.length; column i is index i + 1
LevFirstRow(k) == [i \in 1..(k + 1) |-> i - 1]

\* the inner loop, for i = lo..hi, filling dp[j] left to right; row holds
\* dp[j][0..lo-1] and prev is dp[j-1].  The range is halved, first half
\* first, so that the evaluation stays shallow.
RECURSIVE LevFillRow(_, _, _, _, _, _)
LevFillRow(s1, c2, prev, row, lo, hi) ==
    IF Len(row) # lo \/ lo > hi THEN row
    ELSE IF lo = hi
    THEN Append(row, Min3(prev[lo + 1] + 1,
                          row[lo] + 1,
                          prev[lo] + (IF s1[lo] = c2 THEN 0 ELSE 1)))
    ELSE LevFillRow(s1, c2, prev,
                    LevFillRow(s1, c2, prev, row, lo, (lo + hi) \div 2),
                    ((lo + hi) \div 2) + 1, hi)

\* the outer loop, for j = lo..hi; prev is dp[lo-1]; dp[j][0] = j; gives
\* dp[hi]
RECURSIVE LevRows(_, _, _, _, _)
LevRows(s1, s2, prev, lo, hi) ==
    IF Len(prev) = 0 \/ lo > hi THEN prev
    ELSE IF lo = hi THEN LevFillRow(s1, s2[lo], prev, <<lo>>, 1, Len(s1))
    ELSE LevRows(s1, s2, LevRows(s1, s2, prev, lo, (lo + hi) \div 2),
                 ((lo + hi) \div 2) + 1, hi)

\* dp[s2.length][s1.length]
levenshtein(s1, s2) == LevRows(s1, s2, LevFirstRow(Len(s1)), 1, Len(s2))[Len(s1) + 1]

\* str.split(/\W+/).filter(Boolean)
NonWord(c) == ~IsWordChar(c)

tokenize(str) == SplitRuns(str, {c \in Range(str) : NonWord(c)})

\* union ? inter / union : 0
jaccard(a, b) ==
    LET A == Range(tokenize(a))
        B == Range(tokenize(b))
        inter == Cardinality({x \in A : x \in B})
        union == Cardinality(A \cup B)
    IN  IF union # 0 THEN Div(inter, union) ELSE Num(0)

\* the inner loop, for j = lo..hi (counted from 1), of one row m[i] of the
\* common-substring table: m[i][j] = (i && j ? m[i-1][j-1] : 0) + 1 when
\* s1[i] = s2[j], and 0 as the table was filled otherwise; row holds
\* m[i][1..lo-1] and prev is m[i-1] (<<>> for the first row)
RECURSIVE LcsFillRow(_, _, _, _, _, _)
LcsFillRow(c1, s2, prev, row, lo, hi) ==
    IF Len(row) # lo - 1 \/ lo > hi THEN row
    ELSE IF lo = hi
    THEN Append(row, IF c1 = s2[lo]
                     THEN (IF prev # <<>> /\ lo > 1 THEN prev[lo - 1] ELSE 0) + 1
                     ELSE 0)
    ELSE LcsFillRow(c1, s2, prev,
                    LcsFillRow(c1, s2, prev, row, lo, (lo + hi) \div 2),
                    ((lo + hi) \div 2) + 1, hi)

\* the largest of longest and the cells of a row
RowMax(row, longest) ==
    CHOOSE x \in Range(row) \cup {longest} : \A y \in Range(row) \cup {longest} : y <= x

\* the outer loop, for i = lo..hi (counted from 1); st holds the row m[lo-1]
\* and the longest run so far
RECURSIVE LcsRows(_, _, _, _, _)
LcsRows(s1, s2, st, lo, hi) ==
    IF st.longest < 0 \/ lo > hi THEN st
    ELSE IF lo = hi
    THEN LET row == LcsFillRow(s1[lo], s2, st.prev, <<>>, 1, Len(s2))
         IN  [prev |-> row, longest |-> RowMax(row, st.longest)]
    ELSE LcsRows(s1, s2, LcsRows(s1, s2, st, lo, (lo + hi) \div 2),
                 ((lo + hi) \div 2) + 1, hi)

\* longest / max(len) when max(len) is not 0, else 0
lcs(s1, s2) ==
    LET longest == LcsRows(s1, s2, [prev |-> <<>>, longest |-> 0], 1, Len(s1)).longest
        m == MaxInt(Len(s1), Len(s2))
    IN  IF m # 0 THEN Div(longest, m) ELSE Num(0)

\* levScore with the distance divided by the first length alone
levScore_DividesByFirstLength(a, b) ==
    Sub(Num(1), Div(levenshtein(a, b), Len(a)))

\* 1 - lev / Math.max(a.length, b.length)
levScore(a, b) == Sub(Num(1), Div(levenshtein(a, b), MaxInt(Len(a), Len(b))))

\* levScore * 0.5 + jaccard * 0.3 + lcsScore * 0.2
confidence(a, b) ==
    Add(Add(Mul(levScore(a, b), Frac(5, 10)), Mul(jaccard(a, b), Frac(3, 10))),
        Mul(lcs(a, b), Frac(2, 10)))

\* Math.max(0, Math.min(1, confidence))
Clamp(x) == MathMax(Num(0), MathMin(Num(1), x))

\* the normalisation of one argument: a.toLowerCase().trim()
Normalize(s) == trim(toLowerCase(s))

\* compareStringsRun with only the first argument tested for emptiness
compareStringsRun_OnlyFirstChecked(a, b) ==
    IF Falsy(a)
    THEN [ret |-> ReturnNumber(Num(0)), computed |-> {}]
    ELSE IF a.t # "string" \/ b.t # "string"
    THEN [ret |-> ThrowTypeError, computed |-> {}]
    ELSE [ret |-> ReturnNumber(Clamp(confidence(Normalize(a.v), Normalize(b.v)))),
          computed |-> {"levenshtein", "jaccard", "lcs"}]

\* compareStringsRun without the test for empty arguments
compareStringsRun_NoShortCircuit(a, b) ==
    IF a.t # "string" \/ b.t # "string"
    THEN [ret |-> ThrowTypeError, computed |-> {}]
    ELSE [ret |-> ReturnNumber(Clamp(confidence(Normalize(a.v), Normalize(b.v)))),
          computed |-> {"levenshtein", "jaccard", "lcs"}]

\* the call compareStrings(a, b) on two values: its result and the
\* sub-scores it computed on the way
compareStringsRun(a, b) ==
    IF Falsy(a) \/ Falsy(b)
    THEN [ret |-> ReturnNumber(Num(0)), computed |-> {}]
    ELSE IF a.t # "string" \/ b.t # "string"
    THEN [ret |-> ThrowTypeError, computed |-> {}]
    ELSE [ret |-> ReturnNumber(Clamp(confidence(Normalize(a.v), Normalize(b.v)))),
          computed |-> {"levenshtein", "jaccard", "lcs"}]

compareStrings(a, b) == compareStringsRun(a, b).ret

(***************************************************************************)
(* stripDiacritics, src/index.js 97.                                       *)
(***************************************************************************)
\* the NFKD decomposition of one character
Nfkd(c) == IF c = EAcute THEN <<"e", CombiningAcute>> ELSE <<c>>

\* s.normalize('NFKD') of the characters lo..hi of s; the range is halved
\* so that the evaluation stays shallow
RECURSIVE NfkdRange(_, _, _)
NfkdRange(s, lo, hi) ==
    IF lo > hi THEN <<>>
    ELSE IF lo = hi THEN Nfkd(s[lo])
    ELSE NfkdRange(s, lo, (lo + hi) \div 2) \o NfkdRange(s, ((lo + hi) \div 2) + 1, hi)

normalizeNFKD(s) == NfkdRange(s, 1, Len(s))

\* the class [U+0300-U+036F], the combining diacritical marks
IsCombiningMark(c) == c = CombiningAcute

NotCombiningMark(c) == ~IsCombiningMark(c)

\* .replace(/[class]/g, '')
RemoveCombiningMarks(s) == SelectSeq(s, NotCombiningMark)

stripDiacritics(s) == RemoveCombiningMarks(normalizeNFKD(s))

(***************************************************************************)
(* sanitizeName, src/index.js 115-174.                                     *)
(***************************************************************************)
HONORIFICS ==
    {<<"m", "r">>,
     <<"m", "r", "s">>,
     <<"m", "s">>,
     <<"m", "i", "s", "s">>,
     <<"m", "x">>,
     <<"d", "r">>,
     <<"p", "r", "o", "f">>,
     <<"s", "i", "r">>,
     <<"d", "a", "m", "e">>}

SUFFIXES ==
    {<<"j", "r">>,
     <<"s", "r">>,
     <<"i", "i">>,
     <<"i", "i", "i">>,
     <<"i", "v">>,
     <<"v">>,
     <<"m", "d">>,
     <<"p", "h", "d">>,
     <<"e", "s", "q">>}

\* the right single quotation mark (U+2019)
RightQuote == "U+2019"

\* the class [_.,/\\'U+2019"-]
IsPunctuation(c) == c \in {"_", ".", ",", "/", "\\", "'", RightQuote, "\"", "-"}

IsDot(c) == c = "."

\* t.replace(/\.+$/, '')
RECURSIVE StripTrailingDots(_)
StripTrailingDots(t) ==
    IF t # <<>> /\ IsDot(t[Len(t)]) THEN StripTrailingDots(SubSeq(t, 1, Len(t) - 1)) ELSE t

\* while (tokens.length && HONORIFICS.has(tokens[0])) tokens.shift()
RECURSIVE StripHonorifics(_)
StripHonorifics(tokens) ==
    IF tokens # <<>> /\ Head(tokens) \in HONORIFICS
    THEN StripHonorifics(Tail(tokens))
    ELSE tokens

\* while (tokens.length && SUFFIXES.has(last.replace(/\.+$/, ''))) tokens.pop()
RECURSIVE StripSuffixes(_)
StripSuffixes(tokens) ==
    IF tokens # <<>> /\ StripTrailingDots(tokens[Len(tokens)]) \in SUFFIXES
    THEN StripSuffixes(SubSeq(tokens, 1, Len(tokens) - 1))
    ELSE tokens

\* /^[a-z]$/.test(t)
IsSingleLetter(t) == Len(t) = 1 /\ IsLowerAsciiLetter(t[1])

\* the loop over tokens that fuses runs of single letters, and the flush of
\* the buffer after it
RECURSIVE Collapse(_, _, _)
Collapse(tokens, buffer, collapsed) ==
    IF tokens = <<>>
    THEN (IF buffer # <<>> THEN Append(collapsed, buffer) ELSE collapsed)
    ELSE IF IsSingleLetter(Head(tokens))
         THEN Collapse(Tail(tokens), buffer \o Head(tokens), collapsed)
         ELSE Collapse(Tail(tokens), <<>>,
                  Append(IF buffer # <<>> THEN Append(collapsed, buffer) ELSE collapsed,
                         Head(tokens)))

\* x.replace(/\s+/g, ' ').trim()
SquashSpaces(x) == trim(ReplaceRuns(x, {c \in Range(x) : IsSpace(c)}))

\* x.split(' ').filter(Boolean)
SplitBlank(x) == SplitRuns(x, {" "})

\* the string sanitizeName returns for the value s
sanitizeName(s) ==
    IF Falsy(s) THEN <<>>
    ELSE LET x0 == toLowerCase(stripDiacritics(String(s)))
             x1 == SquashSpaces(ReplaceRuns(x0, {c \in Range(x0) : IsPunctuation(c)}))
             tokens == StripSuffixes(StripHonorifics(SplitBlank(x1)))
             collapsed == Collapse(tokens, <<>>, <<>>)
         IN  SquashSpaces(JoinSpace(collapsed))

(***************************************************************************)
(* structuralBonus, src/index.js 191-206.                                  *)
(***************************************************************************)
\* structuralBonus with the first tokens compared whole
structuralBonus_WholeFirstToken(aSan, bSan) ==
    LET aT == SplitBlank(aSan)
        bT == SplitBlank(bSan)
    IN  IF aT = <<>> \/ bT = <<>> THEN Num(0)
        ELSE Add(IF aT[Len(aT)] = bT[Len(bT)] THEN Frac(5, 100) ELSE Num(0),
                 IF aT[1] = bT[1] THEN Frac(2, 100) ELSE Num(0))

\* the bonus of two strings
structuralBonus(aSan, bSan) ==
    LET aT == SplitBlank(aSan)
        bT == SplitBlank(bSan)
    IN  IF aT = <<>> \/ bT = <<>> THEN Num(0)
        ELSE LET aLast == aT[Len(aT)]
                 bLast == bT[Len(bT)]
                 lastMatch == IF aLast = bLast THEN Frac(5, 100) ELSE Num(0)
                 aFirst == aT[1]
                 bFirst == bT[1]
                 firstInitialMatch == IF aFirst[1] = bFirst[1] THEN Frac(2, 100) ELSE Num(0)
             IN  Add(lastMatch, firstInitialMatch)

(***************************************************************************)
(* compareNames, src/index.js 226-249.                                     *)
(***************************************************************************)
\* compareNames without Math.min(1, ...)
compareNames_NoClamp(a, b) ==
    LET aSan == sanitizeName(a)
        bSan == sanitizeName(b)
    IN  MathMax(Num(0), Add(compareStrings(Str(aSan), Str(bSan)).num,
                            structuralBonus(aSan, bSan)))

\* the one pass of the loops over variantsA = [aSan] and variantsB = [bSan]
compareNames(a, b) ==
    LET aSan == sanitizeName(a)
        bSan == sanitizeName(b)
        base == compareStrings(Str(aSan), Str(bSan)).num
        bonus == structuralBonus(aSan, bSan)
        best == Num(0)
    IN  MathMax(best, MathMin(Num(1), Add(base, bonus)))

(***************************************************************************)
(* Inputs.                                                                 *)
(***************************************************************************)
SeqsUpTo(S, n) == UNION {[1..k -> S] : k \in 0..n}

RECURSIVE Flatten(_)
Flatten(ss) == IF ss = <<>> THEN <<>> ELSE Head(ss) \o Flatten(Tail(ss))

\* two letters, an upper-case letter, a white-space and a non-word character
CmpAlphabet == {"a", "b", "A", " ", "-"}

CmpStrings == {Str(s) : s \in SeqsUpTo(CmpAlphabet, MaxLen)}

\* the fragments names are built from
NamePieces ==
    {<<"D", "r", ".", " ">>,
     <<"J", "o", "s", EAcute, " ">>,
     <<"M", ".", " ">>,
     <<"D", ".">>,
     <<"D", "o", "e">>,
     <<",", " ", "J", "r", ".">>,
     <<",", " ", "P", "h", ".", "D", ".">>}

NameStrings == {Str(Flatten(ps)) : ps \in SeqsUpTo(NamePieces, MaxPieces)}

\* the examples of the documentation and the tests
NameJaneDoePhD ==
    Str(<<"D", "r", ".", " ", "J", "a", "n", "e", " ", "M", ".", " ",
          "D", "o", "e", ",", " ", "P", "h", ".", "D", ".">>)

NameJohnSmithJr ==
    Str(<<"M", "r", ".", " ", "J", "o", "h", "n", " ", "A", ".", " ",
          "S", "m", "i", "t", "h", ",", " ", "J", "r", ".">>)

NameHESmith ==
    Str(<<"H", " ", "E", " ", "S", "m", "i", "t", "h">>)

NameJoseDoe ==
    Str(<<"J", "o", "s", "e", " ", "D", "o", "e">>)

NameDr ==
    Str(<<"D", "r", ".">>)

ExampleNames ==
    {NameJaneDoePhD, NameJohnSmithJr, NameHESmith, NameJoseDoe, NameDr}

TextHelloWorld ==
    Str(<<"h", "e", "l", "l", "o", " ", "w", "o", "r", "l", "d">>)

TextHelloThere ==
    Str(<<"h", "e", "l", "l", "o", " ", "t", "h", "e", "r", "e">>)

ExampleTexts == {TextHelloWorld, TextHelloThere}

\* values that are no strings, and the empty string
Specials ==
    {Undefined, Null, Str(<<>>), Number(<<"0">>), Number(<<"5">>),
     Boolean(<<"f", "a", "l", "s", "e">>), Boolean(<<"t", "r", "u", "e">>)}

\* the second argument of a call whose first ranges over NameStrings
References == Specials \cup ExampleNames

\* the outputs of sanitizeName, as the strings structuralBonus is called with
Sanitized(S) == {Str(sanitizeName(x)) : x \in S}

\* the argument pairs of a call; a call with one argument leaves the second
\* undefined
InputPairs ==
    LET texts == CmpStrings \cup ExampleTexts \cup Specials
    IN  (texts \X texts)
        \cup (NameStrings \X References) \cup (References \X NameStrings)
        \cup (Sanitized(NameStrings) \X Sanitized(References))
        \cup (Sanitized(References) \X Sanitized(NameStrings))

(***************************************************************************)
(* The calls.  Init draws the arguments; each action is one call of an     *)
(* exported function on them.                                              *)
(***************************************************************************)
Init ==
    /\ pc = "ready"
    /\ op = "none"
    /\ \E p \in InputPairs : argA = p[1] /\ argB = p[2]
    /\ ret = NoResult
    /\ computed = {}

CompareStrings ==
    /\ pc = "ready"
    /\ pc' = "done"
    /\ op' = "compareStrings"
    /\ ret' = compareStringsRun(argA, argB).ret
    /\ computed' = compareStringsRun(argA, argB).computed
    /\ UNCHANGED <<argA, argB>>

\* s.normalize is not a function unless s is a string
StripDiacritics ==
    /\ pc = "ready"
    /\ argB = Undefined
    /\ pc' = "done"
    /\ op' = "stripDiacritics"
    /\ ret' = IF argA.t = "string" THEN ReturnString(stripDiacritics(argA.v))
              ELSE ThrowTypeError
    /\ UNCHANGED <<argA, argB, computed>>

SanitizeName ==
    /\ pc = "ready"
    /\ argB = Undefined
    /\ pc' = "done"
    /\ op' = "sanitizeName"
    /\ ret' = ReturnString(sanitizeName(argA))
    /\ UNCHANGED <<argA, argB, computed>>

\* aSan.split is not a function unless aSan is a string
StructuralBonus ==
    /\ pc = "ready"
    /\ pc' = "done"
    /\ op' = "structuralBonus"
    /\ ret' = IF argA.t = "string" /\ argB.t = "string"
              THEN ReturnNumber(structuralBonus(argA.v, argB.v))
              ELSE ThrowTypeError
    /\ UNCHANGED <<argA, argB, computed>>

CompareNames ==
    /\ pc = "ready"
    /\ pc' = "done"
    /\ op' = "compareNames"
    /\ ret' = ReturnNumber(compareNames(argA, argB))
    /\ UNCHANGED <<argA, argB, computed>>

Next ==
    \/ CompareStrings
    \/ StripDiacritics
    \/ SanitizeName
    \/ StructuralBonus
    \/ CompareNames

Spec == Init /\ [][Next]_vars

(***************************************************************************)
(* compareStrings alone, on every pair of strings of up to BlendLen        *)
(* characters over two letters and the space.                              *)
(***************************************************************************)
BlendAlphabet == {"a", "b", " "}

BlendStrings == {Str(s) : s \in SeqsUpTo(BlendAlphabet, BlendLen)}

InitBlend ==
    /\ pc = "ready"
    /\ op = "none"
    /\ argA \in BlendStrings
    /\ argB \in BlendStrings
    /\ ret = NoResult
    /\ computed = {}

NextBlend == CompareStrings

SpecBlend == InitBlend /\ [][NextBlend]_vars

(***************************************************************************)
(* Properties.                                                             *)
(***************************************************************************)
Done(f) == pc = "done" /\ op = f

\* absent, null or a string
IsText(x) == x.t \in {"undefined", "null", "string"}

\* absent, null or the empty string
IsEmptyText(x) == x.t \in {"undefined", "null"} \/ x = Str(<<>>)

IsNonEmptyString(x) == x.t = "string" /\ x.v # <<>>

\* 0 <= x <= 1
InUnit(x) == Leq(Num(0), x) /\ Leq(x, Num(1))

\* C1: compareStrings(a, b) returns a number r with 0 <= r <= 1 for every
\* pair of inputs that are absent, null, empty or any string, strings of
\* white space only included.
C1_ResultInUnitInterval ==
    Done("compareStrings") /\ IsText(argA) /\ IsText(argB)
        => ret.kind = "return" /\ ret.type = "number" /\ InUnit(ret.num)

\* C2: compareStrings(x, y) = 1 whenever x and y are non-empty strings that
\* are equal after lowercasing and trimming; in particular
\* compareStrings(x, x) = 1 for every non-empty string x.
C2_EqualAfterNormalizationIsOne ==
    Done("compareStrings") /\ IsNonEmptyString(argA) /\ IsNonEmptyString(argB)
                           /\ trim(toLowerCase(argA.v)) = trim(toLowerCase(argB.v))
        => ret = ReturnNumber(Num(1))

\* C3: compareStrings(a, b) returns exactly 0, raises no error and computes
\* no sub-score whenever a or b is the empty string, null or absent,
\* whatever the other argument is.
C3_EmptyShortCircuit ==
    Done("compareStrings") /\ (IsEmptyText(argA) \/ IsEmptyText(argB))
        => ret = ReturnNumber(Num(0)) /\ computed = {}

\* an empty argument beside one that is no string at all, and beside a string
C3_Witness ==
    /\ Done("compareStrings")
    /\ argA = Null
    /\ argB = Number(<<"5">>)
    /\ ret = ReturnNumber(Num(0))

\* C4: compareStrings is symmetric: for all strings a, b the call with the
\* arguments exchanged returns the same result.
C4_Symmetric ==
    Done("compareStrings") /\ argA.t = "string" /\ argB.t = "string"
        => ret = compareStrings(argB, argA)

\* two strings of different lengths and a score strictly between 0 and 1
C4_Witness ==
    /\ Done("compareStrings")
    /\ argA.t = "string" /\ argB.t = "string"
    /\ Len(trim(toLowerCase(argA.v))) < Len(trim(toLowerCase(argB.v)))
    /\ ret.kind = "return"
    /\ InUnit(ret.num) /\ ret.num # Num(0) /\ ret.num # Num(1)

\* the tokens of a string split on spaces, as the claim reads them: the
\* maximal runs of characters other than the space
TokenStarts(s) == {i \in DOMAIN s : s[i] # " " /\ (i = 1 \/ s[i - 1] = " ")}

TokenEnd(s, i) ==
    CHOOSE j \in i..Len(s) :
        /\ \A k \in i..j : s[k] # " "
        /\ j = Len(s) \/ s[j + 1] = " "

TokenAt(s, i) == SubSeq(s, i, TokenEnd(s, i))

\* no leading, trailing or double white space
WellSpaced(s) ==
    /\ \A i \in DOMAIN s : IsSpace(s[i]) =>
           /\ i # 1 /\ i # Len(s)
           /\ ~IsSpace(s[i + 1])

\* C5: the string sanitizeName returns is in canonical form: its first token
\* is no honorific, its last token is no suffix, no two adjacent tokens are
\* both single letters, and it has no leading, trailing or double white space.
C5_CanonicalForm ==
    Done("sanitizeName") =>
        LET out == ret.str
            starts == TokenStarts(out)
            Single(i) == Len(TokenAt(out, i)) = 1 /\ IsLowerAsciiLetter(out[i])
            Adjacent(i, k) == i < k /\ \A n \in starts : ~(i < n /\ n < k)
        IN  /\ ret.kind = "return"
            /\ WellSpaced(out)
            /\ \A i \in starts :
                   /\ (\A k \in starts : i <= k) => TokenAt(out, i) \notin HONORIFICS
                   /\ (\A k \in starts : k <= i) => TokenAt(out, i) \notin SUFFIXES
                   /\ \A k \in starts : Adjacent(i, k) => ~(Single(i) /\ Single(k))

\* C6: sanitizeName raises no error on any value; an absent or null input
\* gives the empty string and every other value v gives
\* sanitizeName(String(v)).
C6_CoercesEveryValue ==
    Done("sanitizeName") =>
        /\ ret.kind = "return"
        /\ argA.t \in {"undefined", "null"} => ret.str = <<>>
        /\ argA.t \notin {"undefined", "null"}
               => ret.str = sanitizeName(Str(String(argA)))

\* the text ", Ph.D."
PhDSuffixText == <<",", " ", "P", "h", ".", "D", ".">>

EndsWith(s, e) == Len(s) >= Len(e) /\ SubSeq(s, Len(s) - Len(e) + 1, Len(s)) = e

\* C7: sanitizeName removes a trailing suffix written "Ph.D.":
\* sanitizeName(N + ", Ph.D.") = sanitizeName(N) for a name N, and
\* sanitizeName("Dr. Jane M. Doe, Ph.D.") = "jane m doe".
C7_PhDWithDotsRemoved ==
    Done("sanitizeName") /\ argA.t = "string" /\ EndsWith(argA.v, PhDSuffixText)
                         /\ Len(argA.v) > Len(PhDSuffixText)
        => /\ ret.str = sanitizeName(Str(SubSeq(argA.v, 1, Len(argA.v) - Len(PhDSuffixText))))
           /\ argA = NameJaneDoePhD
                  => ret.str = <<"j", "a", "n", "e", " ", "m", " ", "d", "o", "e">>

LastTokenOf(s) == TokenAt(s, CHOOSE i \in TokenStarts(s) : \A k \in TokenStarts(s) : k <= i)

FirstTokenOf(s) == TokenAt(s, CHOOSE i \in TokenStarts(s) : \A k \in TokenStarts(s) : i <= k)

\* the bonus as the claim states it
ClaimedBonus(a, b) ==
    IF TokenStarts(a) = {} \/ TokenStarts(b) = {} THEN Num(0)
    ELSE Frac((IF LastTokenOf(a) = LastTokenOf(b) THEN 5 ELSE 0)
              + (IF FirstTokenOf(a)[1] = FirstTokenOf(b)[1] THEN 2 ELSE 0), 100)

\* C8: for two already-sanitized strings structuralBonus returns a value in
\* {0, 0.02, 0.05, 0.07}: 0 if either has no tokens, otherwise 0.05 exactly
\* when the last tokens are equal plus 0.02 exactly when the first characters
\* of the first tokens are equal.
C8_BonusValue ==
    Done("structuralBonus") /\ argA.t = "string" /\ argB.t = "string"
                            /\ WellSpaced(argA.v) /\ WellSpaced(argB.v)
        => /\ ret = ReturnNumber(ClaimedBonus(argA.v, argB.v))
           /\ ret.num \in {Num(0), Frac(2, 100), Frac(5, 100), Frac(7, 100)}

\* two different sanitized names of several tokens that earn both bonuses
C8_Witness ==
    /\ Done("structuralBonus")
    /\ argA.t = "string" /\ argB.t = "string"
    /\ WellSpaced(argA.v) /\ WellSpaced(argB.v)
    /\ argA # argB
    /\ Cardinality(TokenStarts(argA.v)) >= 2
    /\ Cardinality(TokenStarts(argB.v)) >= 2
    /\ ret.num = Frac(7, 100)

\* C9: compareNames(a, b) = min(1, compareStrings(sanitizeName(a),
\* sanitizeName(b)) + structuralBonus(sanitizeName(a), sanitizeName(b))) for
\* all inputs a, b, and the result lies in [0, 1].
C9_Composition ==
    Done("compareNames") =>
        LET aSan == sanitizeName(argA)
            bSan == sanitizeName(argB)
        IN  /\ ret.kind = "return"
            /\ ret.num = MathMin(Num(1), Add(compareStrings(Str(aSan), Str(bSan)).num,
                                            structuralBonus(aSan, bSan)))
            /\ InUnit(ret.num)

\* two different inputs whose base score and bonus add up to more than 1
C9_Witness ==
    /\ Done("compareNames")
    /\ argA # argB
    /\ LET aSan == sanitizeName(argA)
           bSan == sanitizeName(argB)
       IN  ~Leq(Add(compareStrings(Str(aSan), Str(bSan)).num, structuralBonus(aSan, bSan)),
                Num(1))
    /\ ret.num = Num(1)

\* C10: compareNames(a, b) returns exactly 0 and raises no error whenever a
\* or b sanitizes to the empty string, whatever the other argument is.
C10_EmptySanitizedIsZero ==
    Done("compareNames") /\ (sanitizeName(argA) = <<>> \/ sanitizeName(argB) = <<>>)
        => ret = ReturnNumber(Num(0))

\* an honorific alone beside a name that sanitizes to something
C10_Witness ==
    /\ Done("compareNames")
    /\ argA = NameDr
    /\ sanitizeName(argB) # <<>>
    /\ ret = ReturnNumber(Num(0))

\* a trace from a to b: positions I of a matched in order with as many
\* positions J of b; the characters outside I are deleted, those outside J
\* inserted, and a matched pair of different characters is a substitution
Traces(a, b) ==
    {t \in (SUBSET (1..Len(a))) \X (SUBSET (1..Len(b))) : Cardinality(t[1]) = Cardinality(t[2])}

\* the number of elements of S up to x
Rank(S, x) == Cardinality({y \in S : y <= x})

\* the number of insertions, deletions and substitutions of a trace
TraceCost(a, b, t) ==
    LET I == t[1]
        J == t[2]
        kept == {x \in I : \E y \in J : Rank(J, y) = Rank(I, x) /\ a[x] = b[y]}
    IN  (Len(a) - Cardinality(I)) + (Len(b) - Cardinality(J))
            + (Cardinality(I) - Cardinality(kept))

\* L: the least number of unit-cost insertions, deletions and substitutions
\* that turn a into b
EditDistance(a, b) ==
    LET costs == {TraceCost(a, b, t) : t \in Traces(a, b)}
    IN  CHOOSE d \in costs : \A e \in costs : d <= e

\* the tokens of s: its maximal runs of word characters
TokenSet(s) ==
    {SubSeq(s, i, j) : <<i, j>> \in
        {p \in (1..Len(s)) \X (1..Len(s)) :
            /\ p[1] <= p[2]
            /\ \A k \in p[1]..p[2] : IsWordChar(s[k])
            /\ (p[1] = 1 \/ ~IsWordChar(s[p[1] - 1]))
            /\ (p[2] = Len(s) \/ ~IsWordChar(s[p[2] + 1]))}}

\* J: |intersection| / |union| of the token sets, 0 when the union is empty
TokenOverlap(a, b) ==
    IF TokenSet(a) \cup TokenSet(b) = {} THEN Num(0)
    ELSE Div(Cardinality(TokenSet(a) \cap TokenSet(b)),
             Cardinality(TokenSet(a) \cup TokenSet(b)))

\* S: the length of the longest string that is a contiguous part of both
CommonSubstringLength(a, b) ==
    LET lens == {k \in 0..MinInt(Len(a), Len(b)) :
                    \E i \in 1..(Len(a) - k + 1), j \in 1..(Len(b) - k + 1) :
                        SubSeq(a, i, i + k - 1) = SubSeq(b, j, j + k - 1)}
    IN  CHOOSE k \in lens : \A l \in lens : l <= k

\* x brought into [0, 1]
ClampUnit(x) ==
    IF ~Leq(Num(0), x) /\ ~IsNaN(x) THEN Num(0)
    ELSE IF ~Leq(x, Num(1)) /\ ~IsNaN(x) THEN Num(1)
    ELSE x

\* 0.5 * (1 - L / max) + 0.3 * J + 0.2 * (S / max), clamped
ReferenceBlend(a, b) ==
    LET m == MaxInt(Len(a), Len(b))
    IN  ClampUnit(Add(Add(Mul(Frac(1, 2), Sub(Num(1), Div(EditDistance(a, b), m))),
                          Mul(Frac(3, 10), TokenOverlap(a, b))),
                      Mul(Frac(1, 5), Div(CommonSubstringLength(a, b), m))))

=============================================================================
